---------------------------- MODULE Spec2Model ----------------------------
(***************************************************************************)
(* Model of the smart-sync example of discord.py-masterclass:              *)
(*   examples/smart-sync/utils/tree.py  (SlashCommandTree, snapshots, diff) *)
(*   examples/smart-sync/main.py        (CustomBot.setup_hook, cog_watcher) *)
(*                                                                         *)
(* Two specifications share the module:                                    *)
(*   DiffSpec  the differ _app_commands_diff applied to bounded inputs     *)
(*   Spec      the bot: setup_hook, then the cog_watcher poll loop, with   *)
(*             the file system and the remote API as environment           *)
(***************************************************************************)
EXTENDS Integers, Sequences, FiniteSets, TLC

(***************************************************************************)
(* Bounds of the model.                                                    *)
(***************************************************************************)
\* longest old / new sequence handed to the differ in DiffSpec
MaxLen == 2
\* number of file modifications the environment performs in Spec
MaxTime == 2
MaxOps == 3
MaxItems == 2
MaxChecks == 3
MaxPages == 2
MaxCats == 2

(***************************************************************************)
(* Snapshot data model (tree.py: AppCommandOption, AppCommandDict).        *)
(* An optional attribute (int | None) is a sequence: <<>> is None, <<v>>   *)
(* the value v.                                                            *)
(***************************************************************************)
None == << >>
Some(v) == << v >>

\* discord.AppCommandType values used by the example (chat_input, user)
CommandTypes == {"chat_input", "user"}
Names == {"ping", "echo"}

\* AppCommandOption(name, required, type, min_value, max_value, min_length, max_length)
AppCommandOption(name, required, type, minv, maxv, minl, maxl) ==
    [name |-> name, required |-> required, type |-> type,
     min_value |-> minv, max_value |-> maxv,
     min_length |-> minl, max_length |-> maxl]

\* AppCommandDict(type, name, nsfw, options)
AppCommandDict(type, name, nsfw, options) ==
    [type |-> type, name |-> name, nsfw |-> nsfw, options |-> options]

(***************************************************************************)
(* _app_commands_diff.  A Python dict is an insertion-ordered sequence of   *)
(* [key, val] items: writing an existing key keeps its position and        *)
(* replaces its value.                                                     *)
(***************************************************************************)
Key(cmd) == << cmd.name, cmd.type >>

DictHas(d, k) == \E i \in 1..Len(d) : d[i].key = k

\* dict.get(k): None (<<>>) when absent, else the value, wrapped
DictGet(d, k) ==
    IF DictHas(d, k)
    THEN Some(d[CHOOSE i \in 1..Len(d) : d[i].key = k].val)
    ELSE None

\* a dict write that keeps the value already stored under the key (setdefault)
DictSetKeepFirst(d, k, v) ==
    IF DictHas(d, k) THEN d ELSE Append(d, [key |-> k, val |-> v])

DictSet(d, k, v) ==
    IF DictHas(d, k)
    THEN [i \in 1..Len(d) |-> IF d[i].key = k THEN [key |-> k, val |-> v] ELSE d[i]]
    ELSE Append(d, [key |-> k, val |-> v])

RECURSIVE CmdDictFrom(_, _)
CmdDictFrom(cmds, d) ==
    IF cmds = << >> THEN d
    ELSE CmdDictFrom(Tail(cmds), DictSet(d, Key(Head(cmds)), Head(cmds)))

\* {(cmd.name, cmd.type): cmd for cmd in cmds}
CmdDict(cmds) == CmdDictFrom(cmds, << >>)

EmptyDiff == [same |-> << >>, added |-> << >>, removed |-> << >>, updated |-> << >>]

\* Classify with the elif written as a second if: an unequal command lands in
\* updated and in same.
ClassifyNoElif(diff, old_cmds, item) ==
    LET old_cmd == DictGet(old_cmds, item.key) IN
    IF old_cmd = None
    THEN [diff EXCEPT !.added = Append(@, item.val)]
    ELSE IF old_cmd[1] # item.val
         THEN [diff EXCEPT !.updated = Append(@, item.val),
                           !.same = Append(@, item.val)]
         ELSE [diff EXCEPT !.same = Append(@, item.val)]

\* Classify with old looked up by name alone, the type dropped from the key.
ClassifyByName(diff, old_cmds, item) ==
    LET hits == { i \in 1..Len(old_cmds) : old_cmds[i].key[1] = item.key[1] } IN
    IF hits = {}
    THEN [diff EXCEPT !.added = Append(@, item.val)]
    ELSE IF old_cmds[CHOOSE i \in hits : TRUE].val # item.val
         THEN [diff EXCEPT !.updated = Append(@, item.val)]
         ELSE [diff EXCEPT !.same = Append(@, item.val)]

\* Classify reporting the old snapshot of an updated command.
ClassifyReportOld(diff, old_cmds, item) ==
    LET old_cmd == DictGet(old_cmds, item.key) IN
    IF old_cmd = None
    THEN [diff EXCEPT !.added = Append(@, item.val)]
    ELSE IF old_cmd[1] # item.val
         THEN [diff EXCEPT !.updated = Append(@, old_cmd[1])]
         ELSE [diff EXCEPT !.same = Append(@, item.val)]

\* Classify comparing the top-level attributes only, the options left out.
ClassifyShallow(diff, old_cmds, item) ==
    LET old_cmd == DictGet(old_cmds, item.key) IN
    IF old_cmd = None
    THEN [diff EXCEPT !.added = Append(@, item.val)]
    ELSE IF [old_cmd[1] EXCEPT !.options = << >>] # [item.val EXCEPT !.options = << >>]
         THEN [diff EXCEPT !.updated = Append(@, item.val)]
         ELSE [diff EXCEPT !.same = Append(@, item.val)]

\* Classify inserting at the front of a bucket instead of appending.
ClassifyPrepend(diff, old_cmds, item) ==
    LET old_cmd == DictGet(old_cmds, item.key) IN
    IF old_cmd = None
    THEN [diff EXCEPT !.added = << item.val >> \o @]
    ELSE IF old_cmd[1] # item.val
         THEN [diff EXCEPT !.updated = << item.val >> \o @]
         ELSE [diff EXCEPT !.same = << item.val >> \o @]

\* the if / elif / else of the first loop, for one item of new_cmds
Classify(diff, old_cmds, item) ==
    LET old_cmd == DictGet(old_cmds, item.key) IN
    IF old_cmd = None
    THEN [diff EXCEPT !.added = Append(@, item.val)]
    ELSE IF old_cmd[1] # item.val
         THEN [diff EXCEPT !.updated = Append(@, item.val)]
         ELSE [diff EXCEPT !.same = Append(@, item.val)]

RECURSIVE DiffNewLoop(_, _, _)
DiffNewLoop(items, old_cmds, diff) ==
    IF items = << >> THEN diff
    ELSE DiffNewLoop(Tail(items), old_cmds, Classify(diff, old_cmds, Head(items)))

\* The second loop without its membership test: every old command is removed.
RECURSIVE DiffOldLoopNoTest(_, _, _)
DiffOldLoopNoTest(items, new_cmds, diff) ==
    IF items = << >> THEN diff
    ELSE DiffOldLoopNoTest(Tail(items), new_cmds,
                           [diff EXCEPT !.removed = Append(@, Head(items).val)])

\* The second loop inserting at the front of removed instead of appending.
RECURSIVE DiffOldLoopPrepend(_, _, _)
DiffOldLoopPrepend(items, new_cmds, diff) ==
    IF items = << >> THEN diff
    ELSE DiffOldLoopPrepend(Tail(items), new_cmds,
                            IF ~DictHas(new_cmds, Head(items).key)
                            THEN [diff EXCEPT !.removed = << Head(items).val >> \o @]
                            ELSE diff)

RECURSIVE DiffOldLoop(_, _, _)
DiffOldLoop(items, new_cmds, diff) ==
    IF items = << >> THEN diff
    ELSE DiffOldLoop(Tail(items), new_cmds,
                     IF ~DictHas(new_cmds, Head(items).key)
                     THEN [diff EXCEPT !.removed = Append(@, Head(items).val)]
                     ELSE diff)

\* The differ comparing old and new position by position instead of by key.
AppCommandsDiffPositional(old, new) ==
    LET both == 1..(IF Len(old) < Len(new) THEN Len(old) ELSE Len(new))
        Pick(s, I) == LET F[i \in 0..Len(s)] ==
                              IF i = 0 THEN << >>
                              ELSE IF i \in I THEN Append(F[i - 1], s[i]) ELSE F[i - 1]
                      IN  F[Len(s)]
    IN  [same    |-> Pick(new, { i \in both : old[i] = new[i] }),
         updated |-> Pick(new, { i \in both : old[i] # new[i] }),
         added   |-> Pick(new, (1..Len(new)) \ both),
         removed |-> Pick(old, (1..Len(old)) \ both)]

AppCommandsDiff(old, new) ==
    LET old_cmds == CmdDict(old)
        new_cmds == CmdDict(new)
    IN  DiffOldLoop(old_cmds, new_cmds, DiffNewLoop(new_cmds, old_cmds, EmptyDiff))

(***************************************************************************)
(* DiffSpec: the differ on every pair of sequences of at most MaxLen       *)
(* snapshots drawn from SnapUniverse (duplicate keys included).            *)
(***************************************************************************)
VARIABLES dOld, dNew, dDiff, dPc

diffVars == << dOld, dNew, dDiff, dPc >>

MessageOption(required) ==
    AppCommandOption("message", required, "string", None, None, None, None)

SnapUniverse ==
    { AppCommandDict(t, n, FALSE, << MessageOption(r) >>) :
        t \in CommandTypes, n \in Names, r \in BOOLEAN }

SeqsUpTo(S, n) == UNION { [1..k -> S] : k \in 0..n }

(***************************************************************************)
(* Properties of the differ (DiffSpec).                                    *)
(***************************************************************************)
RangeOf(s) == { s[i] : i \in 1..Len(s) }
KeysOf(s) == { Key(s[i]) : i \in 1..Len(s) }
UniqueKeys(s) == \A i, j \in 1..Len(s) : Key(s[i]) = Key(s[j]) => i = j
NewBuckets == {"same", "added", "updated"}
Buckets == {"same", "added", "removed", "updated"}

\* C1: for old and new with unique (name, type) keys, every command of new is
\* in exactly one of same / added / updated, every command of old whose key is
\* absent from new is in removed, no command is in two buckets, no command is
\* twice in a bucket, and the buckets hold nothing else.
C1_Partition ==
    (dPc = "done" /\ UniqueKeys(dOld) /\ UniqueKeys(dNew)) =>
        /\ \A i \in 1..Len(dNew) :
              Cardinality({ b \in NewBuckets : dNew[i] \in RangeOf(dDiff[b]) }) = 1
        /\ \A i \in 1..Len(dOld) :
              Key(dOld[i]) \notin KeysOf(dNew) => dOld[i] \in RangeOf(dDiff.removed)
        /\ \A b1, b2 \in Buckets :
              b1 # b2 => RangeOf(dDiff[b1]) \cap RangeOf(dDiff[b2]) = {}
        /\ RangeOf(dDiff.same) \cup RangeOf(dDiff.added) \cup RangeOf(dDiff.updated)
              = RangeOf(dNew)
        /\ RangeOf(dDiff.removed)
              = { c \in RangeOf(dOld) : Key(c) \notin KeysOf(dNew) }
        /\ Len(dDiff.same) + Len(dDiff.added) + Len(dDiff.updated) = Len(dNew)
        /\ Len(dDiff.removed) = Cardinality(RangeOf(dDiff.removed))

\* C1 witness: a diff of unique-key inputs with an added, an updated and a
\* removed command at once.
C1_Witness ==
    /\ dPc = "done" /\ UniqueKeys(dOld) /\ UniqueKeys(dNew)
    /\ Len(dDiff.added) = 1 /\ Len(dDiff.updated) = 1 /\ Len(dDiff.removed) = 1

\* the value a dict built from s holds for key k: the last occurrence
LastWithKey(s, k) ==
    s[CHOOSE i \in 1..Len(s) :
        /\ Key(s[i]) = k
        /\ \A j \in 1..Len(s) : Key(s[j]) = k => j <= i]

\* C10: for every key present in new and absent from old the new command
\* (with unique keys: every such command of new) is in added, and added holds
\* no command whose key is present in old.
C10_Added ==
    dPc = "done" =>
        /\ \A k \in KeysOf(dNew) \ KeysOf(dOld) :
              LastWithKey(dNew, k) \in RangeOf(dDiff.added)
        /\ UniqueKeys(dNew) =>
              \A i \in 1..Len(dNew) :
                  Key(dNew[i]) \notin KeysOf(dOld) => dNew[i] \in RangeOf(dDiff.added)
        /\ \A c \in RangeOf(dDiff.added) : Key(c) \notin KeysOf(dOld)

\* C10 witness: a command is added although old holds a command of the same
\* name (of another type), next to a command of new whose key old holds.
C10_Witness ==
    /\ dPc = "done"
    /\ \E c \in RangeOf(dDiff.added) : \E o \in RangeOf(dOld) : o.name = c.name
    /\ \E c \in RangeOf(dNew) : Key(c) \in KeysOf(dOld)

(***************************************************************************)
(* The bot.  Local command definitions (app_commands.Command with its       *)
(* Parameters, app_commands.ContextMenu) live in the extension modules; the *)
(* remote API holds the published payloads and hands them back as          *)
(* AppCommand / Argument objects.                                          *)
(***************************************************************************)
Extensions == {"cogs.cog", "cogs.groupcog"}

\* what an extension file on disk holds: one of three sources that import, or
\* a source that raises on import
GoodSources == {"v1", "v2", "v3"}
Sources == GoodSources \cup {"broken"}

\* app_commands.Parameter: for a string parameter min_value / max_value are
\* its length bounds
Parameter(name, required, type, minv, maxv) ==
    [name |-> name, required |-> required, type |-> type,
     min_value |-> minv, max_value |-> maxv]

Command(name, nsfw, parameters) ==
    [kind |-> "Command", type |-> "chat_input", name |-> name, nsfw |-> nsfw,
     parameters |-> parameters]

\* main.py: @bot.tree.context_menu(name="user_ping")
ContextMenu(name) ==
    [kind |-> "ContextMenu", type |-> "user", name |-> name, nsfw |-> FALSE,
     parameters |-> << >>]

\* the app commands a loaded module adds to the tree:
\*   cogs.cog       v1 echo(message: str)   v2 echo(message: str = ...)  v3 none
\*   cogs.groupcog  v1 add(a: int)          v2 add(a: Range[int, 1, 2])  v3 none
CommandsOf(ext, src) ==
    IF src \notin {"v1", "v2"} THEN << >>
    ELSE IF ext = "cogs.cog"
         THEN << Command("echo", FALSE,
                    << Parameter("message", src = "v1", "string", None, None) >>) >>
         ELSE << Command("add", FALSE,
                    << Parameter("a", TRUE, "integer",
                                 IF src = "v2" THEN Some(1) ELSE None,
                                 IF src = "v2" THEN Some(2) ELSE None) >>) >>

\* CommandTree.get_commands() for the loaded modules (mod: extension -> source
\* or "unloaded"), the context menu of main() included
GetCommands(mod) ==
    CommandsOf("cogs.cog", mod["cogs.cog"])
        \o CommandsOf("cogs.groupcog", mod["cogs.groupcog"])
        \o << ContextMenu("user_ping") >>

\* Parameter.to_dict(): the bounds of a string parameter are sent as
\* min_length / max_length, those of any other as min_value / max_value
ParameterToDict(p) ==
    [name |-> p.name, required |-> p.required, type |-> p.type,
     min_value |-> IF p.type = "string" THEN None ELSE p.min_value,
     max_value |-> IF p.type = "string" THEN None ELSE p.max_value,
     min_length |-> IF p.type = "string" THEN p.min_value ELSE None,
     max_length |-> IF p.type = "string" THEN p.max_value ELSE None]

\* cmd.to_dict() / cmd.get_translated_payload(): the payload of one command
CommandToDict(cmd) ==
    [type |-> cmd.type, name |-> cmd.name, nsfw |-> cmd.nsfw,
     options |-> [i \in 1..Len(cmd.parameters) |-> ParameterToDict(cmd.parameters[i])]]

\* what CommandTree.sync() leaves published: the payload of every tree command
SyncPayload(mod) ==
    LET cmds == GetCommands(mod) IN [i \in 1..Len(cmds) |-> CommandToDict(cmds[i])]

Truthy(opt) == opt # None /\ opt[1] # 0

\* AppCommandOption.from_option: every attribute of the remote Argument copied
FromOption(opt) ==
    AppCommandOption(opt.name, opt.required, opt.type,
                     opt.min_value, opt.max_value, opt.min_length, opt.max_length)

\* AppCommandOption.from_parameter: min_length / max_length are taken from
\* param.min_value / param.max_value when those are truthy
FromParameter(data, param) ==
    AppCommandOption(param.name, param.required, param.type,
                     param.min_value, param.max_value,
                     IF Truthy(param.min_value) THEN param.min_value ELSE None,
                     IF Truthy(param.max_value) THEN param.max_value ELSE None)

Min(a, b) == IF a <= b THEN a ELSE b

\* AppCommandDict.from_app_command
FromAppCommand(cmd) ==
    AppCommandDict(cmd.type, cmd.name, cmd.nsfw,
                   [i \in 1..Len(cmd.options) |-> FromOption(cmd.options[i])])

\* AppCommandDict.from_command: the Command and the ContextMenu branch
FromCommand(data, cmd) ==
    IF cmd.kind = "Command"
    THEN AppCommandDict(data.type, cmd.name, data.nsfw,
             [i \in 1..Min(Len(data.options), Len(cmd.parameters)) |->
                 FromParameter(data.options[i], cmd.parameters[i])])
    ELSE AppCommandDict(data.type, cmd.name, data.nsfw, << >>)

\* _revalidate_commands: the new value of _current_commands_list
RevalidateCommands(mod) ==
    LET cmds == GetCommands(mod) IN
    [i \in 1..Len(cmds) |-> FromCommand(CommandToDict(cmds[i]), cmds[i])]

\* _sync line 311: the snapshots of the fetched remote commands
GlobalCommandsList(rem) == [i \in 1..Len(rem) |-> FromAppCommand(rem[i])]

\* the test of _sync_commands with diff.removed left out
SyncNeededNoRemoved(d) == d.added # << >> \/ d.updated # << >>

\* _sync_commands line 302: any((diff.added, diff.removed, diff.updated))
SyncNeeded(d) == d.added # << >> \/ d.removed # << >> \/ d.updated # << >>

(***************************************************************************)
(* State of the other examples: AnsiBuilder (markdow-and-ansi).            *)
(***************************************************************************)
VARIABLES
    aText,        \* AnsiBuilder.text, a sequence of characters
    aCursor,      \* AnsiBuilder.cursor
    aRaised,      \* history: the last operation raised ValueError
    aLast,        \* history: the last operation and its arguments
    aOps          \* history: the operations made so far

ansiVars == << aText, aCursor, aRaised, aLast, aOps >>

NoOp == [op |-> "init", cursor |-> 0, text |-> << >>]

\* the builder while another example runs
AnsiIdle ==
    /\ aText = << >>
    /\ aCursor = 0
    /\ aRaised = FALSE
    /\ aLast = NoOp
    /\ aOps = 0

(***************************************************************************)
(* State of the other examples: BaseLayoutView (views/components_v2).      *)
(***************************************************************************)
VARIABLES
    vItems,       \* the items walk_children() yields: kind, nested or not, disabled
    vInteraction, \* BaseLayoutView.interaction: None or the stored interaction
    vMessage,     \* BaseLayoutView.message is not None
    vStatus,      \* "active", "timed_out" (the timeout was dispatched) or "stopped"
    vShown,       \* the items as the displayed message shows them
    vPending,     \* the interaction whose check passed and whose callback runs
    vLast,        \* history: user and outcome of the last interaction_check
    vChecks       \* history: the interaction_check calls made so far

viewVars == << vItems, vInteraction, vMessage, vStatus, vShown, vPending,
               vLast, vChecks >>

NoCheck == [user |-> "nobody", result |-> "none"]

\* the view while another example runs
ViewIdle ==
    /\ vItems = << >>
    /\ vInteraction = None
    /\ vMessage = FALSE
    /\ vStatus = "idle"
    /\ vShown = << >>
    /\ vPending = None
    /\ vLast = NoCheck
    /\ vChecks = 0

(***************************************************************************)
(* State of the other examples: the paginators (views/paginators).         *)
(***************************************************************************)
VARIABLES
    pKind,            \* "button", "select" or "category": the paginator class
    pInput,           \* the pages argument of the constructor
    pCategories,      \* CategoryBasedPaginator.categories
    pPages,           \* BasePaginator.pages
    pAttachments,     \* BasePaginator.attachments
    pCurrentPage,     \* BasePaginator.current_page
    pCurrentCategory, \* CategoryBasedPaginator.current_category
    pMessage,         \* self.message is not None
    pStarted,         \* start_paginator has been called
    pSent,            \* history: what the last send_page sent
    pLast             \* history: the last operation and its argument

pagerVars == << pKind, pInput, pCategories, pPages, pAttachments, pCurrentPage,
                pCurrentCategory, pMessage, pStarted, pSent, pLast >>

NoPress == [op |-> "init", arg |-> 0]

\* the paginator while another example runs
PagerIdle ==
    /\ pKind = "idle"
    /\ pInput = << >>
    /\ pCategories = << >>
    /\ pPages = << >>
    /\ pAttachments = << >>
    /\ pCurrentPage = 0
    /\ pCurrentCategory = 0
    /\ pMessage = FALSE
    /\ pStarted = FALSE
    /\ pSent = None
    /\ pLast = NoPress

uiVars == << ansiVars, viewVars, pagerVars >>

UiIdle == AnsiIdle /\ ViewIdle /\ PagerIdle

(***************************************************************************)
(* State of the bot.                                                       *)
(***************************************************************************)
VARIABLES
    file,         \* extension -> source on disk
    mtime,        \* extension -> st_mtime of its file
    now,          \* the clock read by time.time()
    module,       \* self.extensions: extension -> loaded source, or "unloaded"
    remote,       \* the commands published at the remote API
    current,      \* SlashCommandTree._current_commands_list (<<>> until _sync sets it)
    pc,           \* flow -> position in setup_hook / cog_watcher
    ready,        \* the client's ready event (wait_until_ready)
    last,         \* cog_watcher: last
    extensions,   \* cog_watcher: the names of this iteration not yet reloaded
    reloaded,     \* cog_watcher: reloaded
    oldList,      \* flow -> _global_commands_list / _old_commands_list
    diff,         \* flow -> the Diff computed by _app_commands_diff
    ret,          \* flow -> outcome of the last _sync_commands call
    published,    \* history: flow -> the last _sync_commands called sync()
    dirty,        \* history: extension modified during the loop, no reload since
    retryDue,     \* history: the last sync() call of the watcher raised
    attemptBit,   \* history: flips at every sync() call of the watcher
    reloadFailed, \* history: a reload of the current iteration raised
    steps,        \* history: the steps of the current watcher iteration
    remoteDiffs,  \* history: the diffs _sync has computed against the fetched commands
    publishCalls, \* history: flow -> the sync() calls it has made
    prevCurrent   \* history: _current_commands_list before the last _revalidate_commands

botVars == << file, mtime, now, module, remote, current, pc, ready, last,
              extensions, reloaded, oldList, diff, ret,
              published, dirty, retryDue, attemptBit, reloadFailed, steps,
              remoteDiffs, publishCalls, prevCurrent >>

vars == << diffVars, botVars, uiVars >>

Flows == {"setup", "watcher"}

\* the commands found published when the bot starts: none, those an earlier
\* run published from the v1 or from the v2 sources, or one stale command the
\* code base no longer declares
RemoteInits ==
    { << >>,
      SyncPayload([e \in Extensions |-> "v1"]),
      SyncPayload([e \in Extensions |-> "v2"]),
      << CommandToDict(Command("ping", FALSE, << >>)) >> }

BotInit ==
    /\ file \in [Extensions -> Sources]
    /\ mtime = [e \in Extensions |-> 0]
    /\ now = 0
    /\ module = [e \in Extensions |-> "unloaded"]
    /\ remote \in RemoteInits
    /\ current = << >>
    /\ pc = [f \in Flows |-> IF f = "setup" THEN "load" ELSE "uncreated"]
    /\ ready = FALSE
    /\ last = 0
    /\ extensions = {}
    /\ reloaded = FALSE
    /\ oldList = [f \in Flows |-> << >>]
    /\ diff = [f \in Flows |-> EmptyDiff]
    /\ ret = [f \in Flows |-> "pending"]
    /\ published = [f \in Flows |-> FALSE]
    /\ dirty = [e \in Extensions |-> FALSE]
    /\ retryDue = FALSE
    /\ attemptBit = FALSE
    /\ reloadFailed = FALSE
    /\ steps = << >>
    /\ remoteDiffs = 0
    /\ publishCalls = [f \in Flows |-> 0]
    /\ prevCurrent = << >>

(***************************************************************************)
(* Control flow.                                                           *)
(***************************************************************************)
\* setup_hook with the watcher task created before the startup sync, the
\* statement order of examples/hot-reload/main.py
SetupNextTaskFirst(at, r) ==
    CASE at = "load"            -> "create_task"
      [] at = "create_task"     -> "fetch"
      [] at = "fetch"           -> "sync_revalidate"
      [] at = "sync_revalidate" -> "sync_diff"
      [] at = "sync_diff"       -> "sync_commands"
      [] at = "sync_commands"   -> IF r = "diff" THEN "compile" ELSE "done"
      [] at = "compile"         -> "smart_revalidate"
      [] at = "smart_revalidate" -> "smart_diff"
      [] at = "smart_diff"      -> "smart_commands"
      [] at = "smart_commands"  -> "done"

\* setup_hook calling _sync() a second time where smart_sync() stands
SetupNextSyncAgain(at, r) ==
    CASE at = "load"            -> "fetch"
      [] at = "fetch"           -> "sync_revalidate"
      [] at = "sync_revalidate" -> "sync_diff"
      [] at = "sync_diff"       -> "sync_commands"
      [] at = "sync_commands"   -> IF r = "diff" THEN "compile" ELSE "create_task"
      [] at = "compile"         -> "fetch"
      [] at = "smart_revalidate" -> "smart_diff"
      [] at = "smart_diff"      -> "smart_commands"
      [] at = "smart_commands"  -> "create_task"
      [] at = "create_task"     -> "done"

\* setup_hook, lines 61-72: the position after the step at, r the value
\* _sync() returned
SetupNext(at, r) ==
    CASE at = "load"            -> "fetch"
      [] at = "fetch"           -> "sync_revalidate"
      [] at = "sync_revalidate" -> "sync_diff"
      [] at = "sync_diff"       -> "sync_commands"
      [] at = "sync_commands"   -> IF r = "diff" THEN "compile" ELSE "create_task"
      [] at = "compile"         -> "smart_revalidate"
      [] at = "smart_revalidate" -> "smart_diff"
      [] at = "smart_diff"      -> "smart_commands"
      [] at = "smart_commands"  -> "create_task"
      [] at = "create_task"     -> "done"

\* cog_watcher with the sync written inside the for loop: it runs after the
\* first successful reload and the loop then goes on with the other names
WatcherNextSyncInLoop(at, rest, rel) ==
    CASE at = "wait_ready"       -> "scan"
      [] at = "scan"             -> IF rest = {} THEN "sleep" ELSE "reload"
      [] at = "reload"           -> IF rel THEN "compile"
                                    ELSE IF rest # {} THEN "reload" ELSE "stamp"
      [] at = "compile"          -> "smart_revalidate"
      [] at = "smart_revalidate" -> "smart_diff"
      [] at = "smart_diff"       -> "smart_commands"
      [] at = "smart_commands"   -> IF rest # {} THEN "reload" ELSE "stamp"
      [] at = "stamp"            -> "sleep"
      [] at = "sleep"            -> "scan"

\* cog_watcher, lines 86-109: the position after the step at; rest are the
\* names the for loop has not reached, rel is reloaded
WatcherNext(at, rest, rel) ==
    CASE at = "wait_ready"       -> "scan"
      [] at = "scan"             -> IF rest = {} THEN "sleep" ELSE "reload"
      [] at = "reload"           -> IF rest # {} THEN "reload"
                                    ELSE IF rel THEN "compile" ELSE "stamp"
      [] at = "compile"          -> "smart_revalidate"
      [] at = "smart_revalidate" -> "smart_diff"
      [] at = "smart_diff"       -> "smart_commands"
      [] at = "smart_commands"   -> "stamp"
      [] at = "stamp"            -> "sleep"
      [] at = "sleep"            -> "scan"

\* where a flow stands once an exception left it
Raised(f) == IF f = "setup" THEN "failed" ELSE "crashed"

Goto(f, at, r) ==
    [pc EXCEPT ![f] = IF f = "setup" THEN SetupNext(at, r)
                      ELSE WatcherNext(at, extensions, reloaded)]

Log(f, step) == IF f = "watcher" THEN Append(steps, step) ELSE steps

(***************************************************************************)
(* The steps shared by _sync and smart_sync, for the flow f standing at at. *)
(***************************************************************************)
\* smart_sync keeping a reference to the stored list where it takes a copy,
\* with _revalidate_commands refilling that list in place: old is the
\* fresh snapshot
RevalidateAliased(f, at, copy) ==
    /\ pc[f] = at
    /\ oldList' = IF copy THEN [oldList EXCEPT ![f] = RevalidateCommands(module)]
                  ELSE oldList
    /\ current' = RevalidateCommands(module)
    /\ prevCurrent' = current
    /\ steps' = Log(f, "snapshot")
    /\ pc' = Goto(f, at, "")
    /\ UNCHANGED << diffVars, uiVars >>
    /\ UNCHANGED << remoteDiffs, publishCalls >>
    /\ UNCHANGED << file, mtime, now, module, remote, ready, last, extensions,
                    reloaded, diff, ret, published, dirty, retryDue, attemptBit,
                    reloadFailed >>

\* _revalidate_commands; smart_sync first copies the stored list (line 317)
Revalidate(f, at, copy) ==
    /\ pc[f] = at
    /\ oldList' = IF copy THEN [oldList EXCEPT ![f] = current] ELSE oldList
    /\ current' = RevalidateCommands(module)
    /\ prevCurrent' = current
    /\ steps' = Log(f, "snapshot")
    /\ pc' = Goto(f, at, "")
    /\ UNCHANGED << diffVars, uiVars >>
    /\ UNCHANGED << remoteDiffs, publishCalls >>
    /\ UNCHANGED << file, mtime, now, module, remote, ready, last, extensions,
                    reloaded, diff, ret, published, dirty, retryDue, attemptBit,
                    reloadFailed >>

\* the diff taking out of the old list every command it finds in new, so
\* that what is left of old is removed
AppDiffConsuming(f, at) ==
    /\ pc[f] = at
    /\ diff' = [diff EXCEPT ![f] = AppCommandsDiff(oldList[f], current)]
    /\ oldList' = [oldList EXCEPT ![f] =
                      SelectSeq(@, LAMBDA c : ~DictHas(CmdDict(current), Key(c)))]
    /\ ret' = [ret EXCEPT ![f] = "pending"]
    /\ published' = [published EXCEPT ![f] = FALSE]
    /\ remoteDiffs' = IF at = "sync_diff" THEN remoteDiffs + 1 ELSE remoteDiffs
    /\ steps' = Log(f, "diff")
    /\ pc' = Goto(f, at, "")
    /\ UNCHANGED << diffVars, uiVars >>
    /\ UNCHANGED << publishCalls, prevCurrent >>
    /\ UNCHANGED << file, mtime, now, module, remote, current, ready, last,
                    extensions, reloaded, dirty, retryDue, attemptBit,
                    reloadFailed >>

\* diff = self._app_commands_diff(old, self._current_commands_list)
AppDiff(f, at) ==
    /\ pc[f] = at
    /\ diff' = [diff EXCEPT ![f] = AppCommandsDiff(oldList[f], current)]
    /\ ret' = [ret EXCEPT ![f] = "pending"]
    /\ published' = [published EXCEPT ![f] = FALSE]
    /\ remoteDiffs' = IF at = "sync_diff" THEN remoteDiffs + 1 ELSE remoteDiffs
    /\ steps' = Log(f, "diff")
    /\ pc' = Goto(f, at, "")
    /\ UNCHANGED << diffVars, uiVars >>
    /\ UNCHANGED << publishCalls, prevCurrent >>
    /\ UNCHANGED << file, mtime, now, module, remote, current, ready, last,
                    extensions, reloaded, oldList, dirty, retryDue, attemptBit,
                    reloadFailed >>

\* _sync_commands, lines 301-308; super().sync() publishes the tree or raises
SyncCommands(f, at) ==
    /\ pc[f] = at
    /\ IF SyncNeeded(diff[f])
       THEN \E ok \in BOOLEAN :
              /\ published' = [published EXCEPT ![f] = TRUE]
              /\ publishCalls' = [publishCalls EXCEPT ![f] = @ + 1]
              /\ steps' = Log(f, "sync")
              /\ retryDue' = IF f = "watcher" THEN ~ok ELSE retryDue
              /\ attemptBit' = IF f = "watcher" THEN ~attemptBit ELSE attemptBit
              /\ IF ok
                 THEN /\ remote' = SyncPayload(module)
                      /\ ret' = [ret EXCEPT ![f] = "diff"]
                      /\ pc' = Goto(f, at, "diff")
                 ELSE /\ remote' = remote
                      /\ ret' = [ret EXCEPT ![f] = "raised"]
                      /\ pc' = [pc EXCEPT ![f] = Raised(f)]
       ELSE /\ published' = [published EXCEPT ![f] = FALSE]
            /\ ret' = [ret EXCEPT ![f] = "None"]
            /\ pc' = Goto(f, at, "None")
            /\ UNCHANGED << remote, steps, retryDue, attemptBit, publishCalls >>
    /\ UNCHANGED << diffVars, uiVars >>
    /\ UNCHANGED << remoteDiffs, prevCurrent >>
    /\ UNCHANGED << file, mtime, now, module, current, ready, last, extensions,
                    reloaded, oldList, diff, dirty, reloadFailed >>

\* _compile_translations: runs translations.sh, no state of the model changes
CompileTranslations(f) ==
    /\ pc[f] = "compile"
    /\ pc' = Goto(f, "compile", "")
    /\ UNCHANGED << diffVars, uiVars >>
    /\ UNCHANGED << remoteDiffs, publishCalls, prevCurrent >>
    /\ UNCHANGED << file, mtime, now, module, remote, current, ready, last,
                    extensions, reloaded, oldList, diff, ret, published, dirty,
                    retryDue, attemptBit, reloadFailed, steps >>

(***************************************************************************)
(* setup_hook.                                                             *)
(***************************************************************************)
\* _load_extensions: a file that raises on import is logged and not loaded
LoadExtensions ==
    /\ pc["setup"] = "load"
    /\ module' = [e \in Extensions |->
                    IF file[e] = "broken" THEN "unloaded" ELSE file[e]]
    /\ pc' = Goto("setup", "load", "")
    /\ UNCHANGED << diffVars, uiVars >>
    /\ UNCHANGED << remoteDiffs, publishCalls, prevCurrent >>
    /\ UNCHANGED << file, mtime, now, remote, current, ready, last, extensions,
                    reloaded, oldList, diff, ret, published, dirty, retryDue,
                    attemptBit, reloadFailed, steps >>

\* _sync line 311: _fetch_commands returns the published commands or raises
FetchCommands ==
    /\ pc["setup"] = "fetch"
    /\ \E ok \in BOOLEAN :
          IF ok
          THEN /\ oldList' = [oldList EXCEPT !["setup"] = GlobalCommandsList(remote)]
               /\ pc' = Goto("setup", "fetch", "")
          ELSE /\ oldList' = oldList
               /\ pc' = [pc EXCEPT !["setup"] = Raised("setup")]
    /\ UNCHANGED << diffVars, uiVars >>
    /\ UNCHANGED << remoteDiffs, publishCalls, prevCurrent >>
    /\ UNCHANGED << file, mtime, now, module, remote, current, ready, last,
                    extensions, reloaded, diff, ret, published, dirty, retryDue,
                    attemptBit, reloadFailed, steps >>

SyncRevalidate == Revalidate("setup", "sync_revalidate", FALSE)
SyncDiff == AppDiff("setup", "sync_diff")
SyncSyncCommands == SyncCommands("setup", "sync_commands")
SetupCompileTranslations == CompileTranslations("setup")
SetupSmartRevalidate == Revalidate("setup", "smart_revalidate", TRUE)
SetupSmartDiff == AppDiff("setup", "smart_diff")
SetupSmartSyncCommands == SyncCommands("setup", "smart_commands")

\* self.loop.create_task(self.cog_watcher())
CreateTask ==
    /\ pc["setup"] = "create_task"
    /\ pc' = [pc EXCEPT !["setup"] = SetupNext("create_task", ""),
                        !["watcher"] = "wait_ready"]
    /\ UNCHANGED << diffVars, uiVars >>
    /\ UNCHANGED << remoteDiffs, publishCalls, prevCurrent >>
    /\ UNCHANGED << file, mtime, now, module, remote, current, ready, last,
                    extensions, reloaded, oldList, diff, ret, published, dirty,
                    retryDue, attemptBit, reloadFailed, steps >>

\* the client connects once setup_hook has returned, and becomes ready
OnReady ==
    /\ pc["setup"] = "done"
    /\ ~ready
    /\ ready' = TRUE
    /\ UNCHANGED << diffVars, uiVars >>
    /\ UNCHANGED << remoteDiffs, publishCalls, prevCurrent >>
    /\ UNCHANGED << file, mtime, now, module, remote, current, pc, last,
                    extensions, reloaded, oldList, diff, ret, published, dirty,
                    retryDue, attemptBit, reloadFailed, steps >>

(***************************************************************************)
(* cog_watcher.                                                            *)
(***************************************************************************)
\* the positions of the while loop
LoopPcs == {"scan", "reload", "compile", "smart_revalidate", "smart_diff",
            "smart_commands", "stamp", "sleep"}

\* lines 87-89: await self.wait_until_ready(); last = time.time()
WaitUntilReady ==
    /\ pc["watcher"] = "wait_ready"
    /\ ready
    /\ last' = now
    /\ pc' = Goto("watcher", "wait_ready", "")
    /\ UNCHANGED << diffVars, uiVars >>
    /\ UNCHANGED << remoteDiffs, publishCalls, prevCurrent >>
    /\ UNCHANGED << file, mtime, now, module, remote, current, ready,
                    extensions, reloaded, oldList, diff, ret, published, dirty,
                    retryDue, attemptBit, reloadFailed, steps >>

\* lines 91-95: the loaded extensions whose file is newer than last.  With
\* none of them the iteration reaches last = time.time() (line 108) without
\* an await.
Scan ==
    /\ pc["watcher"] = "scan"
    /\ LET changed == { e \in Extensions :
                          module[e] # "unloaded" /\ mtime[e] > last }
       IN  /\ extensions' = changed
           /\ last' = IF changed = {} THEN now ELSE last
           /\ pc' = [pc EXCEPT !["watcher"] = WatcherNext("scan", changed, FALSE)]
    /\ reloaded' = FALSE
    /\ steps' = << >>
    /\ UNCHANGED << diffVars, uiVars >>
    /\ UNCHANGED << remoteDiffs, publishCalls, prevCurrent >>
    /\ UNCHANGED << file, mtime, now, module, remote, current, ready, oldList,
                    diff, ret, published, dirty, retryDue, attemptBit,
                    reloadFailed >>

\* lines 96-102, one pass of the for loop: reload_extension imports the file
\* as it is now; on ExtensionError the old module stays and the error is logged
Reload ==
    /\ pc["watcher"] = "reload"
    /\ \E e \in extensions :
          LET ok == file[e] # "broken"
              rest == extensions \ {e}
              rel == reloaded \/ ok
          IN  /\ module' = IF ok THEN [module EXCEPT ![e] = file[e]] ELSE module
              /\ reloaded' = rel
              /\ extensions' = rest
              /\ reloadFailed' = (reloadFailed \/ ~ok)
              /\ dirty' = [dirty EXCEPT ![e] = FALSE]
              /\ pc' = [pc EXCEPT !["watcher"] = WatcherNext("reload", rest, rel)]
    /\ steps' = Append(steps, "reload")
    /\ UNCHANGED << diffVars, uiVars >>
    /\ UNCHANGED << remoteDiffs, publishCalls, prevCurrent >>
    /\ UNCHANGED << file, mtime, now, remote, current, ready, last, oldList,
                    diff, ret, published, retryDue, attemptBit >>

WatcherCompileTranslations == CompileTranslations("watcher")
WatcherSmartRevalidate == Revalidate("watcher", "smart_revalidate", TRUE)
WatcherSmartDiff == AppDiff("watcher", "smart_diff")
WatcherSmartSyncCommands == SyncCommands("watcher", "smart_commands")

\* line 108: last = time.time()
Stamp ==
    /\ pc["watcher"] = "stamp"
    /\ last' = now
    /\ pc' = Goto("watcher", "stamp", "")
    /\ UNCHANGED << diffVars, uiVars >>
    /\ UNCHANGED << remoteDiffs, publishCalls, prevCurrent >>
    /\ UNCHANGED << file, mtime, now, module, remote, current, ready,
                    extensions, reloaded, oldList, diff, ret, published, dirty,
                    retryDue, attemptBit, reloadFailed, steps >>

\* line 109: await asyncio.sleep(1), then the next iteration
Sleep ==
    /\ pc["watcher"] = "sleep"
    /\ reloadFailed' = FALSE
    /\ pc' = Goto("watcher", "sleep", "")
    /\ UNCHANGED << diffVars, uiVars >>
    /\ UNCHANGED << remoteDiffs, publishCalls, prevCurrent >>
    /\ UNCHANGED << file, mtime, now, module, remote, current, ready, last,
                    extensions, reloaded, oldList, diff, ret, published, dirty,
                    retryDue, attemptBit, steps >>

(***************************************************************************)
(* Environment: somebody saves an extension file.  The clock advances, so  *)
(* the new st_mtime is later than every time.time() read before.           *)
(***************************************************************************)
EditFile ==
    /\ pc["setup"] # "load"
    /\ now < MaxTime
    /\ now' = now + 1
    /\ \E e \in Extensions : \E src \in Sources :
          /\ file' = [file EXCEPT ![e] = src]
          /\ mtime' = [mtime EXCEPT ![e] = now + 1]
          /\ dirty' = [dirty EXCEPT ![e] =
                          @ \/ (module[e] # "unloaded" /\ pc["watcher"] \in LoopPcs)]
    /\ UNCHANGED << diffVars, uiVars >>
    /\ UNCHANGED << remoteDiffs, publishCalls, prevCurrent >>
    /\ UNCHANGED << module, remote, current, pc, ready, last, extensions,
                    reloaded, oldList, diff, ret, published, retryDue,
                    attemptBit, reloadFailed, steps >>

(***************************************************************************)
(* Specifications.                                                         *)
(***************************************************************************)
SetupStep ==
    \/ LoadExtensions
    \/ FetchCommands
    \/ SyncRevalidate
    \/ SyncDiff
    \/ SyncSyncCommands
    \/ SetupCompileTranslations
    \/ SetupSmartRevalidate
    \/ SetupSmartDiff
    \/ SetupSmartSyncCommands
    \/ CreateTask

WatcherStep ==
    \/ WaitUntilReady
    \/ Scan
    \/ Reload
    \/ WatcherCompileTranslations
    \/ WatcherSmartRevalidate
    \/ WatcherSmartDiff
    \/ WatcherSmartSyncCommands
    \/ Stamp
    \/ Sleep

\* the differ's variables while the bot runs
DiffIdle ==
    /\ dOld = << >>
    /\ dNew = << >>
    /\ dDiff = EmptyDiff
    /\ dPc = "idle"

\* the bot's variables while the differ is exercised alone
BotIdle ==
    /\ file = [e \in Extensions |-> "v1"]
    /\ mtime = [e \in Extensions |-> 0]
    /\ now = 0
    /\ module = [e \in Extensions |-> "unloaded"]
    /\ remote = << >>
    /\ current = << >>
    /\ pc = [f \in Flows |-> "idle"]
    /\ ready = FALSE
    /\ last = 0
    /\ extensions = {}
    /\ reloaded = FALSE
    /\ oldList = [f \in Flows |-> << >>]
    /\ diff = [f \in Flows |-> EmptyDiff]
    /\ ret = [f \in Flows |-> "pending"]
    /\ published = [f \in Flows |-> FALSE]
    /\ dirty = [e \in Extensions |-> FALSE]
    /\ retryDue = FALSE
    /\ attemptBit = FALSE
    /\ reloadFailed = FALSE
    /\ steps = << >>
    /\ remoteDiffs = 0
    /\ publishCalls = [f \in Flows |-> 0]
    /\ prevCurrent = << >>

Init == BotInit /\ DiffIdle /\ UiIdle

Next ==
    \/ SetupStep
    \/ OnReady
    \/ WatcherStep
    \/ EditFile

Spec == Init /\ [][Next]_vars

\* the event loop runs every step of setup_hook and of the watcher task that
\* can run; the environment may stop saving files at any time
FairSpec ==
    /\ Spec
    /\ WF_vars(SetupStep)
    /\ WF_vars(OnReady)
    /\ WF_vars(WatcherStep)

DiffInputs ==
    /\ dOld \in SeqsUpTo(SnapUniverse, MaxLen)
    /\ dNew \in SeqsUpTo(SnapUniverse, MaxLen)
    /\ dDiff = EmptyDiff
    /\ dPc = "input"

RunDiff ==
    /\ dPc = "input"
    /\ dDiff' = AppCommandsDiff(dOld, dNew)
    /\ dPc' = "done"
    /\ UNCHANGED << dOld, dNew >>
    /\ UNCHANGED << botVars, uiVars >>

DiffNext == RunDiff

DiffInit == DiffInputs /\ BotIdle /\ UiIdle

DiffSpec == DiffInit /\ [][DiffNext]_vars

(***************************************************************************)
(* Properties of the bot (Spec, FairSpec).                                 *)
(***************************************************************************)
HasChanges(d) == Len(d.added) + Len(d.removed) + Len(d.updated) > 0

\* C2: once _sync_commands has ended, it has called CommandTree.sync exactly
\* when one of added / removed / updated is non-empty; with all three empty it
\* returned None, and it returned the diff only after a call (a call that
\* raises returns nothing: the exception leaves _sync_commands).
C2_PublishIffNeeded ==
    \A f \in Flows :
        ret[f] # "pending" =>
            /\ published[f] <=> HasChanges(diff[f])
            /\ ~HasChanges(diff[f]) => ret[f] = "None"
            /\ HasChanges(diff[f]) => ret[f] \in {"diff", "raised"}

\* C2 witness: setup_hook's smart_sync found nothing to publish and returned
\* None, and a later smart_sync of the watcher published and returned its diff.
C2_Witness ==
    /\ ret["setup"] = "None" /\ ~published["setup"]
    /\ ret["watcher"] = "diff" /\ published["watcher"]

\* C3 (as claimed): while the sync call of a smart_sync that needs one is
\* still to be made, _current_commands_list is still the old set (the refresh
\* comes after the call); and once a sync call has completed, a smart_sync of
\* the unchanged tree reports no changes.
C3_SyncThenRefresh ==
    \A f \in Flows :
        /\ (pc[f] = "smart_commands" /\ HasChanges(diff[f])) => current = oldList[f]
        /\ (ret[f] = "diff" /\ current = RevalidateCommands(module)) =>
              ~HasChanges(AppCommandsDiff(current, RevalidateCommands(module)))

\* C4 (as claimed): after a sync call of the watcher has raised, the watcher
\* makes another sync call.
C4_RetryOnNextInterval ==
    \A b \in BOOLEAN : (retryDue /\ attemptBit = b) ~> (attemptBit # b)

\* C5 (as claimed): a sync call that raised inside a cog_watcher iteration
\* leaves the watcher in its loop.
C5_WatcherSurvivesSyncFailure ==
    ret["watcher"] = "raised" => pc["watcher"] \in LoopPcs

\* C6 (as claimed): an iteration in which a reload raised ExtensionError stays
\* in the loop until its next interval, its other changed extensions reloaded.
C6_LoopProceedsAfterReloadFailure ==
    reloadFailed =>
        /\ pc["watcher"] \in LoopPcs
        /\ pc["watcher"] \in {"compile", "smart_revalidate", "smart_diff",
                              "smart_commands", "stamp", "sleep"} => extensions = {}

\* C7 (as claimed): an extension modified while the loop runs and not reloaded
\* since is still going to be reloaded: the loop runs and either the file is
\* newer than last or the extension is among the names the for loop has yet
\* to reload.
C7_ChangeStaysDetectable ==
    \A e \in Extensions :
        dirty[e] =>
            /\ pc["watcher"] \in LoopPcs
            /\ mtime[e] > last \/ e \in extensions

StepRank(step) ==
    CASE step = "reload" -> 1 [] step = "snapshot" -> 2
      [] step = "diff" -> 3 [] step = "sync" -> 4

Count(s, x) == Cardinality({ i \in 1..Len(s) : s[i] = x })

\* C8: the steps of one watcher iteration come in the order reloads,
\* re-snapshot, diff, sync; the re-snapshot, the differ and the sync each run
\* at most once per iteration, and none of them while a changed extension of
\* the iteration is still to be reloaded.
C8_IterationOrder ==
    /\ \A i, j \in 1..Len(steps) : i < j => StepRank(steps[i]) <= StepRank(steps[j])
    /\ Count(steps, "snapshot") <= 1
    /\ Count(steps, "diff") <= 1
    /\ Count(steps, "sync") <= 1
    /\ Count(steps, "diff") = 1 => Count(steps, "snapshot") = 1
    /\ Count(steps, "sync") = 1 => Count(steps, "diff") = 1
    /\ pc["watcher"] \in {"compile", "smart_revalidate", "smart_diff", "smart_commands"}
          => extensions = {}
    /\ Count(steps, "snapshot") = 1 => extensions = {}

\* C8 witness: an iteration that reloaded two extensions, then took the
\* snapshot, ran the differ and synced.
C8_Witness == steps = << "reload", "reload", "snapshot", "diff", "sync" >>

InSyncSequence(f) ==
    pc[f] \in {"fetch", "sync_revalidate", "sync_diff", "sync_commands", "compile",
               "smart_revalidate", "smart_diff", "smart_commands"}

\* C9: setup_hook and the watcher are never both inside a revalidate-diff-sync
\* sequence; the watcher task exists, and so iterates, only once setup_hook has
\* finished its startup sync; and _current_commands_list changes only in the
\* _revalidate_commands step of the one flow that is inside a sequence.
C9_NoInterleaving ==
    /\ [](~(InSyncSequence("setup") /\ InSyncSequence("watcher")))
    /\ [](pc["watcher"] # "uncreated" => pc["setup"] = "done")
    /\ [][current' # current =>
            \E f \in Flows :
                /\ pc[f] \in {"sync_revalidate", "smart_revalidate"}
                /\ pc'[f] # pc[f]
                /\ \A g \in Flows \ {f} : ~InSyncSequence(g)]_vars

\* C9 witness: the watcher is inside a smart_sync after a startup that ran
\* both _sync and smart_sync.
C9_Witness ==
    /\ pc["watcher"] = "smart_diff"
    /\ pc["setup"] = "done"
    /\ ret["setup"] = "None"
    /\ published["watcher"]


(***************************************************************************)
(* Further properties of the differ (DiffSpec).                            *)
(***************************************************************************)
WithKey(s, k) == { c \in RangeOf(s) : Key(c) = k }

\* C11: for every key present in old and in new, the command is in updated
\* when the snapshot of old and the snapshot of new differ and in same when
\* they are equal, in no other bucket, and the snapshot reported under that
\* key is the one of new.
C11_CommonKeys ==
    dPc = "done" =>
        \A k \in KeysOf(dOld) \cap KeysOf(dNew) :
            LET o == LastWithKey(dOld, k)
                n == LastWithKey(dNew, k)
            IN  /\ o # n => /\ WithKey(dDiff.updated, k) = {n}
                            /\ WithKey(dDiff.same, k) = {}
                /\ o = n => /\ WithKey(dDiff.same, k) = {n}
                            /\ WithKey(dDiff.updated, k) = {}
                /\ WithKey(dDiff.added, k) = {}
                /\ WithKey(dDiff.removed, k) = {}

\* C11 witness: one diff with a common key whose snapshots differ and a
\* common key whose snapshots are equal.
C11_Witness ==
    /\ dPc = "done"
    /\ \E k \in KeysOf(dOld) \cap KeysOf(dNew) :
          LastWithKey(dOld, k) # LastWithKey(dNew, k)
    /\ \E k \in KeysOf(dOld) \cap KeysOf(dNew) :
          LastWithKey(dOld, k) = LastWithKey(dNew, k)

\* C12: for every key present in old and absent from new, the command is in
\* removed with the snapshot of old, and removed holds no command whose key
\* is present in new.
C12_Removed ==
    dPc = "done" =>
        /\ \A k \in KeysOf(dOld) \ KeysOf(dNew) :
              /\ WithKey(dDiff.removed, k) = {LastWithKey(dOld, k)}
              /\ \A b \in NewBuckets : WithKey(dDiff[b], k) = {}
        /\ \A c \in RangeOf(dDiff.removed) : Key(c) \notin KeysOf(dNew)

\* C12 witness: a command is removed while another command of old has its
\* key present in new.
C12_Witness ==
    /\ dPc = "done"
    /\ dDiff.removed # << >>
    /\ \E c \in RangeOf(dOld) : Key(c) \in KeysOf(dNew)

\* two snapshots that agree on every attribute except the required flag of
\* one of their options
DifferInOneRequired(o, n) ==
    /\ o.name = n.name /\ o.type = n.type /\ o.nsfw = n.nsfw
    /\ Len(o.options) = Len(n.options)
    /\ \E i \in 1..Len(o.options) :
          /\ o.options[i].required # n.options[i].required
          /\ [o.options[i] EXCEPT !.required = n.options[i].required] = n.options[i]
          /\ \A j \in 1..Len(o.options) : j # i => o.options[j] = n.options[j]

\* C13: snapshot equality reaches into the nested options: when a key is in
\* old and in new and the two snapshots differ only in one option's required
\* flag, the command of new is in updated and not in same.
C13_NestedAttribute ==
    dPc = "done" =>
        \A k \in KeysOf(dOld) \cap KeysOf(dNew) :
            DifferInOneRequired(LastWithKey(dOld, k), LastWithKey(dNew, k)) =>
                /\ LastWithKey(dNew, k) \in RangeOf(dDiff.updated)
                /\ LastWithKey(dNew, k) \notin RangeOf(dDiff.same)
                /\ LastWithKey(dOld, k) \notin RangeOf(dDiff.same)

\* C13 witness: a diff of two commands of one key that differ in nothing but
\* the required flag of their option.
C13_Witness ==
    /\ dPc = "done"
    /\ \E k \in KeysOf(dOld) \cap KeysOf(dNew) :
          DifferInOneRequired(LastWithKey(dOld, k), LastWithKey(dNew, k))

\* C14: when old and new (each with unique keys) hold the same snapshots, in
\* any order, added, removed and updated are empty, same holds exactly the
\* common snapshots, once each, and no sync is needed.
C14_SameElements ==
    (dPc = "done" /\ UniqueKeys(dOld) /\ UniqueKeys(dNew)
                  /\ RangeOf(dOld) = RangeOf(dNew)) =>
        /\ dDiff.added = << >> /\ dDiff.removed = << >> /\ dDiff.updated = << >>
        /\ RangeOf(dDiff.same) = RangeOf(dNew)
        /\ Len(dDiff.same) = Len(dNew)
        /\ ~SyncNeeded(dDiff)

\* C14 witness: old and new are two different orders of the same two
\* snapshots.
C14_Witness ==
    /\ dPc = "done" /\ UniqueKeys(dOld) /\ UniqueKeys(dNew)
    /\ RangeOf(dOld) = RangeOf(dNew)
    /\ Len(dNew) = 2 /\ dOld # dNew

\* C15: for an empty old and a non-empty new (with unique keys) added is new,
\* element for element in the same order, and removed, updated and same are
\* empty.
C15_OldEmpty ==
    (dPc = "done" /\ dOld = << >> /\ dNew # << >> /\ UniqueKeys(dNew)) =>
        /\ dDiff.added = dNew
        /\ dDiff.removed = << >> /\ dDiff.updated = << >> /\ dDiff.same = << >>

\* C15 witness: an empty old against a new of two commands.
C15_Witness ==
    /\ dPc = "done" /\ dOld = << >> /\ UniqueKeys(dNew)
    /\ Len(dNew) = 2 /\ dDiff.added # << >>

\* C16: for an empty new and a non-empty old (with unique keys) removed is
\* old, element for element in the same order, and added, updated and same
\* are empty.
C16_NewEmpty ==
    (dPc = "done" /\ dNew = << >> /\ dOld # << >> /\ UniqueKeys(dOld)) =>
        /\ dDiff.removed = dOld
        /\ dDiff.added = << >> /\ dDiff.updated = << >> /\ dDiff.same = << >>

\* C16 witness: an old of two commands against an empty new.
C16_Witness ==
    /\ dPc = "done" /\ dNew = << >> /\ UniqueKeys(dOld)
    /\ Len(dOld) = 2 /\ dDiff.removed # << >>


(***************************************************************************)
(* Properties of _sync and smart_sync (Spec).                              *)
(***************************************************************************)
DiffPcs == {"sync_diff", "smart_diff"}

\* C18: a step that computes a diff leaves its two inputs (the old list and
\* the stored snapshot _current_commands_list, which is the new input), the
\* loaded command tree and the published commands as they were, and makes
\* no publish call.
C18_DiffIsPure ==
    [][ \A f \in Flows :
          (pc[f] \in DiffPcs /\ pc'[f] # pc[f]) =>
              /\ diff'[f] = AppCommandsDiff(oldList[f], current)
              /\ oldList' = oldList
              /\ current' = current
              /\ module' = module
              /\ remote' = remote
              /\ publishCalls' = publishCalls ]_vars

\* C18 witness: the watcher has just computed a diff that needs a sync, from a
\* non-empty old list with a key of the new one.
C18_Witness ==
    /\ pc["watcher"] = "smart_commands"
    /\ HasChanges(diff["watcher"])
    /\ KeysOf(oldList["watcher"]) \cap KeysOf(current) # {}

\* the positions of setup_hook after _sync has computed its diff
AfterSyncDiff == {"sync_commands", "compile", "smart_revalidate", "smart_diff",
                  "smart_commands", "create_task", "done"}

\* C19: the diff of the fetched remote commands against the local tree is
\* computed at most once, it has been computed once setup_hook is past it
\* (so before the watcher task exists and before the client is ready), its
\* inputs are the snapshot of the remote commands and the snapshot of the
\* loaded tree, and no publish call precedes it.
C19_RemoteDiffOnce ==
    /\ remoteDiffs <= 1
    /\ remoteDiffs = 0 => \A f \in Flows : publishCalls[f] = 0
    /\ pc["setup"] \in AfterSyncDiff => remoteDiffs = 1
    /\ (ready \/ pc["watcher"] # "uncreated") => remoteDiffs = 1
    /\ pc["setup"] = "sync_commands" =>
          diff["setup"] = AppCommandsDiff(GlobalCommandsList(remote),
                                          RevalidateCommands(module))

\* C19 witness: setup_hook has published, the watcher has published as well,
\* and the remote diff was computed once.
C19_Witness ==
    /\ remoteDiffs = 1
    /\ publishCalls["setup"] >= 1
    /\ publishCalls["watcher"] >= 1

\* C20: in smart_sync the old input of the diff is the snapshot that was
\* stored before it recomputed (the one the previous _sync or smart_sync
\* left), the new input is the snapshot of the tree as loaded now, and the
\* recomputation leaves the old input as it was.
C20_SmartSyncInputs ==
    \A f \in Flows :
        /\ pc[f] = "smart_diff" =>
              /\ oldList[f] = prevCurrent
              /\ current = RevalidateCommands(module)
        /\ pc[f] = "smart_commands" =>
              diff[f] = AppCommandsDiff(prevCurrent, RevalidateCommands(module))

\* C20 witness: a smart_sync of the watcher about to diff a non-empty stored
\* snapshot against a different fresh one.
C20_Witness ==
    /\ pc["watcher"] = "smart_diff"
    /\ oldList["watcher"] # << >>
    /\ oldList["watcher"] # current


(***************************************************************************)
(* Conversion to snapshots and the startup sync (Spec).                    *)
(***************************************************************************)
\* C24 (as claimed): when the published commands are the payloads of the
\* loaded tree, the snapshots built from the remote entries equal the
\* snapshots built from the local commands, a local option's min_length and
\* max_length are its own length bounds (those of a string option, none
\* otherwise), and the startup diff puts every command in same.
C24_SameConversion ==
    (pc["setup"] = "sync_commands" /\ remote = SyncPayload(module)) =>
        /\ oldList["setup"] = current
        /\ \A i \in 1..Len(current) : \A j \in 1..Len(current[i].options) :
              LET o == current[i].options[j] IN
              o.type # "string" => o.min_length = None /\ o.max_length = None
        /\ diff["setup"].same = current
        /\ ~SyncNeeded(diff["setup"])

\* C25 (as claimed): in setup_hook the translation compile and smart_sync run
\* exactly when _sync reported a change; sync() is called at most twice, and
\* not at all when the published commands are the payloads of the loaded
\* tree; the watcher task exists only once these steps are over.
C25_SetupSyncs ==
    /\ pc["setup"] \in {"compile", "smart_revalidate", "smart_diff", "smart_commands"}
          => publishCalls["setup"] >= 1
    /\ pc["setup"] = "create_task"
          => (prevCurrent # << >> <=> publishCalls["setup"] >= 1)
    /\ publishCalls["setup"] <= 2
    /\ (pc["setup"] = "sync_commands" /\ remote = SyncPayload(module))
          => ~SyncNeeded(diff["setup"])
    /\ pc["watcher"] # "uncreated" => pc["setup"] = "done"

(***************************************************************************)
(* The differ on inputs that repeat a key (DiffSpec).                      *)
(***************************************************************************)
\* the number of entries of s with key k
KeyCount(s, k) == Cardinality({ i \in 1..Len(s) : Key(s[i]) = k })

\* C26: for all inputs, those that repeat a (name, type) key included, no key
\* is more than once in same, added and updated taken together nor more than
\* once in removed, and the snapshot compared and reported for a key is the
\* last one of that key in its input sequence.
C26_DuplicateKeys ==
    dPc = "done" =>
        /\ \A k \in KeysOf(dNew) :
              /\ KeyCount(dDiff.same \o dDiff.added \o dDiff.updated, k) = 1
              /\ WithKey(dDiff.same \o dDiff.added \o dDiff.updated, k)
                    = {LastWithKey(dNew, k)}
              /\ k \in KeysOf(dOld) =>
                    (LastWithKey(dNew, k) \in RangeOf(dDiff.same)
                        <=> LastWithKey(dOld, k) = LastWithKey(dNew, k))
        /\ \A k \in KeysOf(dOld) :
              /\ KeyCount(dDiff.removed, k) <= 1
              /\ WithKey(dDiff.removed, k) \subseteq {LastWithKey(dOld, k)}
        /\ \A k \in KeysOf(dDiff.same \o dDiff.added \o dDiff.updated) : k \in KeysOf(dNew)
        /\ \A k \in KeysOf(dDiff.removed) : k \in KeysOf(dOld)

\* C26 witness: old and new each hold two different snapshots of one key, and
\* the diff reports a removed command as well as a command of new.
C26_Witness ==
    /\ dPc = "done"
    /\ \E i, j \in 1..Len(dOld) : i # j /\ Key(dOld[i]) = Key(dOld[j]) /\ dOld[i] # dOld[j]
    /\ \E i, j \in 1..Len(dNew) : i # j /\ Key(dNew[i]) = Key(dNew[j]) /\ dNew[i] # dNew[j]
    /\ dDiff.removed # << >>


(***************************************************************************)
(* AnsiBuilder (markdow-and-ansi/main.py).  A str is a sequence of         *)
(* characters; "ESC" is the character \033.                                *)
(***************************************************************************)
Max(a, b) == IF a >= b THEN a ELSE b

\* s[:c] and s[c:] as Python slices them: a negative index counts from the
\* end, an index out of range is clamped
SliceIndex(s, c) == IF c < 0 THEN Max(Len(s) + c, 0) ELSE Min(c, Len(s))
SliceTo(s, c) == SubSeq(s, 1, SliceIndex(s, c))
SliceFrom(s, c) == SubSeq(s, SliceIndex(s, c) + 1, Len(s))

\* str(style) for Styles.BOLD and Colors.RED
BOLD == << "1" >>
RED == << "3", "1" >>

\* ';'.join(map(str, styles))
RECURSIVE JoinStyles(_)
JoinStyles(styles) ==
    IF styles = << >> THEN << >>
    ELSE IF Len(styles) = 1 THEN Head(styles)
    ELSE Head(styles) \o << ";" >> \o JoinStyles(Tail(styles))

\* AnsiBuilder.__init__: the value of self.text
InitialText(text, styles) ==
    IF styles # << >> /\ text # << >>
    THEN << "ESC", "[" >> \o JoinStyles(styles) \o << "m" >> \o text
             \o << "ESC", "[", "0", "m" >>
    ELSE text

\* AnsiBuilder(text, *styles)
AnsiInputs ==
    /\ \E text \in {<< >>, << "a" >>} : \E styles \in {<< >>, << BOLD >>, << BOLD, RED >>} :
          /\ aText = InitialText(text, styles)
          /\ aCursor = Len(text)
    /\ aRaised = FALSE
    /\ aLast = NoOp
    /\ aOps = 0

\* the strings handed to __add__ and to write
AddTexts == { << >>, << "b" >> }
WriteTexts == { << >>, << "c" >>, << "c", "c" >> }

\* __add__, lines 48-51
AnsiAdd ==
    /\ aOps < MaxOps
    /\ \E other \in AddTexts :
          /\ aText' = aText \o other
          /\ aCursor' = aCursor + Len(other)
          /\ aLast' = [op |-> "add", cursor |-> 0, text |-> other]
    /\ aRaised' = FALSE
    /\ aOps' = aOps + 1
    /\ UNCHANGED << diffVars, botVars, viewVars, pagerVars >>

\* write without its first test: only a negative cursor is refused
AnsiWriteNoUpperTest ==
    /\ aOps < MaxOps
    /\ \E cursor \in -1..(Len(aText) + 1) : \E text \in WriteTexts :
          /\ aLast' = [op |-> "write", cursor |-> cursor, text |-> text]
          /\ IF cursor < 0
             THEN /\ aRaised' = TRUE
                  /\ UNCHANGED << aText, aCursor >>
             ELSE /\ aRaised' = FALSE
                  /\ aText' = SliceTo(aText, cursor) \o text \o SliceFrom(aText, cursor)
                  /\ aCursor' = aCursor + Len(text)
    /\ aOps' = aOps + 1
    /\ UNCHANGED << diffVars, botVars, viewVars, pagerVars >>

\* write, lines 53-60
AnsiWrite ==
    /\ aOps < MaxOps
    /\ \E cursor \in -1..(Len(aText) + 1) : \E text \in WriteTexts :
          /\ aLast' = [op |-> "write", cursor |-> cursor, text |-> text]
          /\ IF cursor > aCursor \/ cursor > Len(aText)
             THEN /\ aRaised' = TRUE
                  /\ UNCHANGED << aText, aCursor >>
             ELSE IF cursor < 0
             THEN /\ aRaised' = TRUE
                  /\ UNCHANGED << aText, aCursor >>
             ELSE /\ aRaised' = FALSE
                  /\ aText' = SliceTo(aText, cursor) \o text \o SliceFrom(aText, cursor)
                  /\ aCursor' = aCursor + Len(text)
    /\ aOps' = aOps + 1
    /\ UNCHANGED << diffVars, botVars, viewVars, pagerVars >>

AnsiNext ==
    \/ AnsiAdd
    \/ AnsiWrite

AnsiInit == AnsiInputs /\ BotIdle /\ DiffIdle /\ ViewIdle /\ PagerIdle

AnsiSpec == AnsiInit /\ [][AnsiNext]_vars

\* C30: a write with a cursor below 0 or above the builder's cursor raises
\* ValueError and leaves text and cursor as they were; any other write puts
\* the text in at that position and moves the cursor on by its length; and
\* after every sequence of __add__ and write the cursor is at most len(text).
C30_Write ==
    /\ [](aCursor <= Len(aText) /\ aCursor >= 0)
    /\ [][ aOps' # aOps /\ aLast'.op = "write" =>
             LET c == aLast'.cursor
                 t == aLast'.text
             IN  IF c < 0 \/ c > aCursor
                 THEN aRaised' /\ aText' = aText /\ aCursor' = aCursor
                 ELSE /\ ~aRaised'
                      /\ aText' = SubSeq(aText, 1, c) \o t \o SubSeq(aText, c + 1, Len(aText))
                      /\ aCursor' = aCursor + Len(t) ]_vars

\* C30 witness: a styled builder (cursor below len(text)) after an __add__,
\* a write that was refused and a write that went in.
C30_Witness ==
    /\ aCursor < Len(aText)
    /\ aOps = 3
    /\ aLast.op = "write" /\ ~aRaised /\ aLast.text # << >>
    /\ \E i \in 1..Len(aText) : aText[i] = "b"


(***************************************************************************)
(* BaseLayoutView (views/components_v2/__init__.py) under the dispatch of  *)
(* discord.ui: an interaction with a component runs interaction_check and, *)
(* when that returns True, the component's callback; an exception of the   *)
(* callback is handed to on_error; the timeout runs on_timeout.            *)
(***************************************************************************)
Users == {"owner", "other"}

\* the classes of the items a layout holds, with their base classes in
\* discord.ui: UserSelect and Select both derive from BaseSelect
ItemKinds == {"Button", "Select", "UserSelect", "TextDisplay"}

Bases(kind) ==
    CASE kind = "Button"      -> {"Button", "Item"}
      [] kind = "Select"      -> {"Select", "BaseSelect", "Item"}
      [] kind = "UserSelect"  -> {"UserSelect", "BaseSelect", "Item"}
      [] kind = "TextDisplay" -> {"TextDisplay", "Item"}

IsInstance(item, class) == class \in Bases(item.kind)

\* the buttons and select menus of a layout
IsComponent(item) == IsInstance(item, "Button") \/ IsInstance(item, "BaseSelect")

Item(kind, nested) == [kind |-> kind, nested |-> nested, disabled |-> FALSE]

\* the layouts: up to MaxItems items, each at the top level of the view or
\* nested in a container or an action row
Layouts == SeqsUpTo({ Item(k, n) : k \in ItemKinds, n \in BOOLEAN }, MaxItems)

\* _disable_all, lines 33-38
DisableAll(items) ==
    [i \in 1..Len(items) |->
        IF IsInstance(items[i], "Button") \/ IsInstance(items[i], "Select")
        THEN [items[i] EXCEPT !.disabled = TRUE]
        ELSE items[i]]

\* _edit(view=self), lines 44-55, for the view holding items: the stored
\* interaction, the message attribute and the displayed items it leaves
Edit(items, interaction, message, shown) ==
    IF interaction = None /\ message
    THEN [interaction |-> interaction, message |-> message, shown |-> items]
    ELSE IF interaction # None
    THEN IF ~interaction[1].responded
         THEN [interaction |-> Some([interaction[1] EXCEPT !.responded = TRUE]),
               message |-> message, shown |-> items]
         ELSE [interaction |-> interaction, message |-> TRUE, shown |-> items]
    ELSE [interaction |-> interaction, message |-> message, shown |-> shown]

\* a command sends the view, and may store the message in view.message
ViewInputs ==
    /\ vItems \in Layouts
    /\ vShown = vItems
    /\ vMessage \in BOOLEAN
    /\ vInteraction = None
    /\ vStatus = "active"
    /\ vPending = None
    /\ vLast = NoCheck
    /\ vChecks = 0

\* the items a user can interact with
Clickable == { i \in 1..Len(vItems) : IsComponent(vItems[i]) /\ ~vItems[i].disabled }

\* interaction_check storing the interaction before it looks at the user
InteractionCheckStoreFirst ==
    /\ vStatus = "active"
    /\ vPending = None
    /\ vChecks < MaxChecks
    /\ \E u \in Users : \E i \in Clickable :
          /\ vInteraction' = Some([id |-> vChecks + 1, responded |-> FALSE])
          /\ IF u # "owner"
             THEN /\ vLast' = [user |-> u, result |-> FALSE]
                  /\ UNCHANGED vPending
             ELSE /\ vPending' = Some(i)
                  /\ vLast' = [user |-> u, result |-> TRUE]
    /\ vChecks' = vChecks + 1
    /\ UNCHANGED << vItems, vMessage, vStatus, vShown >>
    /\ UNCHANGED << diffVars, botVars, ansiVars, pagerVars >>

\* interaction_check, lines 25-31, for an interaction of user u with item i
InteractionCheck ==
    /\ vStatus = "active"
    /\ vPending = None
    /\ vChecks < MaxChecks
    /\ \E u \in Users : \E i \in Clickable :
          IF u # "owner"
          THEN /\ vLast' = [user |-> u, result |-> FALSE]
               /\ UNCHANGED << vInteraction, vPending >>
          ELSE /\ vInteraction' = Some([id |-> vChecks + 1, responded |-> FALSE])
               /\ vPending' = Some(i)
               /\ vLast' = [user |-> u, result |-> TRUE]
    /\ vChecks' = vChecks + 1
    /\ UNCHANGED << vItems, vMessage, vStatus, vShown >>
    /\ UNCHANGED << diffVars, botVars, ansiVars, pagerVars >>

\* the callback of the component returns: either ImageFilterView.apply_filter
\* (action_row.py lines 125-144: defer, then _edit) or
\* SubclassedActionRow.confirm (lines 31-35: _disable_all, then _edit)
Callback ==
    /\ vPending # None
    /\ \E cb \in {"apply_filter", "confirm"} :
          LET items == IF cb = "confirm" THEN DisableAll(vItems) ELSE vItems
              inter == IF cb = "confirm" THEN vInteraction
                       ELSE Some([vInteraction[1] EXCEPT !.responded = TRUE])
              e == Edit(items, inter, vMessage, vShown)
          IN  /\ vItems' = items
              /\ vInteraction' = e.interaction
              /\ vMessage' = e.message
              /\ vShown' = e.shown
    /\ vPending' = None
    /\ UNCHANGED << vStatus, vLast, vChecks >>
    /\ UNCHANGED << diffVars, botVars, ansiVars, pagerVars >>

\* the callback raises, before or after it responded: on_error, lines 58-69
OnError ==
    /\ vPending # None
    /\ \E responded \in BOOLEAN :
          LET items == Append(DisableAll(vItems), Item("TextDisplay", FALSE))
              inter == Some([vInteraction[1] EXCEPT !.responded = @ \/ responded])
              e == Edit(items, inter, vMessage, vShown)
          IN  /\ vItems' = items
              /\ vInteraction' = e.interaction
              /\ vMessage' = e.message
              /\ vShown' = e.shown
    /\ vStatus' = "stopped"
    /\ vPending' = None
    /\ UNCHANGED << vLast, vChecks >>
    /\ UNCHANGED << diffVars, botVars, ansiVars, pagerVars >>

\* the timeout passes: on_timeout, lines 71-75
OnTimeout ==
    /\ vStatus = "active"
    /\ LET items == DisableAll(vItems)
           e == Edit(items, vInteraction, vMessage, vShown)
       IN  /\ vItems' = items
           /\ vInteraction' = e.interaction
           /\ vMessage' = e.message
           /\ vShown' = e.shown
    /\ vStatus' = "timed_out"
    /\ UNCHANGED << vPending, vLast, vChecks >>
    /\ UNCHANGED << diffVars, botVars, ansiVars, pagerVars >>

ViewNext ==
    \/ InteractionCheck
    \/ Callback
    \/ OnError
    \/ OnTimeout

ViewInit == ViewInputs /\ BotIdle /\ DiffIdle /\ AnsiIdle /\ PagerIdle

ViewSpec == ViewInit /\ [][ViewNext]_vars

\* C21: interaction_check returns True exactly when the interacting user is
\* the user the view was made for, and then stores the interaction; for any
\* other user it returns False, stores nothing and no callback is started.
C21_OnlyOwner ==
    [][ vChecks' # vChecks =>
          /\ vLast'.result \in BOOLEAN
          /\ vLast'.result = TRUE <=> vLast'.user = "owner"
          /\ vLast'.user # "owner" =>
                /\ vLast'.result = FALSE
                /\ vInteraction' = vInteraction
                /\ vPending' = None
          /\ vLast'.user = "owner" =>
                /\ vInteraction' = Some([id |-> vChecks', responded |-> FALSE])
                /\ vPending' # None ]_vars

\* C21 witness: another user was turned away while an interaction of the
\* owner is stored.
C21_Witness ==
    /\ vLast.user = "other" /\ vLast.result = FALSE
    /\ vInteraction # None
    /\ vChecks >= 2

\* C22 (as claimed): once on_timeout has run, every button and select menu of
\* the view, nested or not, is disabled, and when a message or an interaction
\* is stored the displayed message shows the view as it is now.
C22_TimeoutDisablesAll ==
    vStatus = "timed_out" =>
        /\ \A i \in 1..Len(vItems) : IsComponent(vItems[i]) => vItems[i].disabled
        /\ (vInteraction # None \/ vMessage) => vShown = vItems

\* C23 (as claimed): once on_error has run, the view is stopped, every button
\* and select menu is disabled, the error text is the last item of the view
\* and the displayed message shows the view as it is now.
C23_ErrorStopsView ==
    vStatus = "stopped" =>
        /\ \A i \in 1..Len(vItems) : IsComponent(vItems[i]) => vItems[i].disabled
        /\ vItems # << >> /\ vItems[Len(vItems)].kind = "TextDisplay"
        /\ vShown = vItems


(***************************************************************************)
(* The paginators (views/paginators).  A list index i of the code is the   *)
(* position i + 1 of the sequence.                                         *)
(***************************************************************************)
\* the files of the attachments
Files == {"1.png", "2.png"}

\* a page: a str, a discord.Embed (ref: its image url starts with
\* "attachment://") or a file
Page(kind, ref) == [kind |-> kind, ref |-> ref]
StrPage == Page("str", FALSE)
Pages == { StrPage, Page("embed", TRUE), Page("embed", FALSE), Page("file", FALSE) }

NonEmptySeqs(S, n) == SeqsUpTo(S, n) \ { << >> }

\* PageEntry(value, attachment=...), select_paginator.py lines 11-23
PageEntry(value, attachment) == [value |-> value, attachment |-> attachment]
PageEntries == { PageEntry(v, a) : v \in Pages, a \in {None} \cup { Some(f) : f \in Files } }

\* CategoryEntry(pages=..., attachments=...), advanced_paginator.py lines 13-28
CategoryEntry(pages, attachments) == [pages |-> pages, attachments |-> attachments]
CategoryEntries ==
    { CategoryEntry(ps, as) : ps \in NonEmptySeqs({StrPage}, MaxPages),
                              as \in SeqsUpTo({"1.png"}, MaxPages) }

\* SelectMenuBasedPaginator.__init__, lines 34-46: pages_ and attachments_
RECURSIVE SelectAttachments(_)
SelectAttachments(entries) ==
    IF entries = << >> THEN << >>
    ELSE (IF Head(entries).attachment # None
          THEN << Head(entries).attachment[1] >> ELSE << >>)
             \o SelectAttachments(Tail(entries))

SelectPages(entries) == [i \in 1..Len(entries) |-> entries[i].value]

\* the constructors: ButtonBasedPaginator(user, pages, attachments=...),
\* SelectMenuBasedPaginator(user, pages=entries),
\* CategoryBasedPaginator(user, pages=categories)
PagerInputs ==
    /\ \/ /\ pKind = "button"
          /\ \E ps \in NonEmptySeqs(Pages, MaxPages) : \E as \in SeqsUpTo(Files, MaxPages) :
                /\ pInput = [pages |-> ps, attachments |-> as]
                /\ pPages = ps
                /\ pAttachments = as
                /\ pCategories = << >>
       \/ /\ pKind = "select"
          /\ \E entries \in NonEmptySeqs(PageEntries, MaxPages) :
                /\ pInput = entries
                /\ pPages = SelectPages(entries)
                /\ pAttachments = SelectAttachments(entries)
                /\ pCategories = << >>
       \/ /\ pKind = "category"
          /\ \E cats \in NonEmptySeqs(CategoryEntries, MaxCats) :
                /\ pInput = cats
                /\ pCategories = cats
                /\ pPages = cats[1].pages
                /\ pAttachments = cats[1].attachments
    /\ pCurrentPage = 0
    /\ pCurrentCategory = 0
    /\ pMessage \in BOOLEAN
    /\ pStarted = FALSE
    /\ pSent = None
    /\ pLast = NoPress

\* send_page, lines 33-60: what is sent for the page, with current_page and
\* attachments as they are at the call
SendPage(page, attachments, current_page, message) ==
    LET has == Len(attachments) > current_page
        files == CASE page.kind = "embed" ->
                         IF page.ref /\ has THEN << attachments[current_page + 1] >>
                         ELSE << >>
                   [] page.kind = "str" ->
                         IF has THEN << attachments[current_page + 1] >> ELSE << >>
                   [] page.kind = "file" -> << "page" >>
    IN  Some([page |-> page, index |-> current_page, files |-> files,
              via |-> IF message THEN "edit_original_response" ELSE "send_message"])

\* start_paginator, lines 62-66, with a valid starting_page
StartPaginator ==
    /\ ~pStarted
    /\ \E starting_page \in 0..(Len(pPages) - 1) :
          /\ pCurrentPage' = starting_page
          /\ pSent' = SendPage(pPages[starting_page + 1], pAttachments, starting_page, pMessage)
          /\ pLast' = [op |-> "start", arg |-> starting_page]
    /\ pMessage' = TRUE
    /\ pStarted' = TRUE
    /\ UNCHANGED << pKind, pInput, pCategories, pPages, pAttachments, pCurrentCategory >>
    /\ UNCHANGED << diffVars, botVars, ansiVars, viewVars >>

\* a press that sets current_page to page and sends that page
GotoPage(op, page) ==
    /\ pCurrentPage' = page
    /\ pSent' = SendPage(pPages[page + 1], pAttachments, page, pMessage)
    /\ pLast' = [op |-> op, arg |-> page]
    /\ UNCHANGED << pKind, pInput, pCategories, pPages, pAttachments,
                    pCurrentCategory, pMessage, pStarted >>
    /\ UNCHANGED << diffVars, botVars, ansiVars, viewVars >>

HasButtons == pKind \in {"button", "category"}

\* goto_first_page_callback, button_paginator.py lines 17-22
GotoFirstPage ==
    /\ pStarted /\ HasButtons
    /\ GotoPage("first", 0)

\* next_page without the modulo
NextPageNoWrap ==
    /\ pStarted /\ HasButtons
    /\ pCurrentPage + 1 < MaxPages + 2
    /\ pCurrentPage' = pCurrentPage + 1
    /\ pSent' = IF pCurrentPage + 1 < Len(pPages)
                THEN SendPage(pPages[pCurrentPage + 2], pAttachments, pCurrentPage + 1, pMessage)
                ELSE pSent
    /\ pLast' = [op |-> "next", arg |-> pCurrentPage + 1]
    /\ UNCHANGED << pKind, pInput, pCategories, pPages, pAttachments,
                    pCurrentCategory, pMessage, pStarted >>
    /\ UNCHANGED << diffVars, botVars, ansiVars, viewVars >>

\* previous_page_callback, lines 24-27, and previous_page
PreviousPage ==
    /\ pStarted /\ HasButtons
    /\ GotoPage("previous", (pCurrentPage - 1) % Len(pPages))

\* next_page_callback, lines 29-32, and next_page
NextPage ==
    /\ pStarted /\ HasButtons
    /\ GotoPage("next", (pCurrentPage + 1) % Len(pPages))

\* goto_last_page_callback, lines 34-39
GotoLastPage ==
    /\ pStarted /\ HasButtons
    /\ GotoPage("last", Len(pPages) - 1)

\* stop_paginator_callback, lines 41-44: the components are disabled and the
\* message is edited; the pages and current_page stay
StopPaginator ==
    /\ pStarted /\ HasButtons
    /\ pLast' = [op |-> "stop", arg |-> 0]
    /\ UNCHANGED << pKind, pInput, pCategories, pPages, pAttachments, pCurrentPage,
                    pCurrentCategory, pMessage, pStarted, pSent >>
    /\ UNCHANGED << diffVars, botVars, ansiVars, viewVars >>

\* PaginatorSelect.callback, select_paginator.py lines 54-60: the options are
\* the indices of the entries
SelectPage ==
    /\ pStarted /\ pKind = "select"
    /\ \E i \in 0..(Len(pInput) - 1) : GotoPage("select", i)

\* the category callback leaving view.attachments as it was
SelectCategoryKeepAttachments ==
    /\ pStarted /\ pKind = "category"
    /\ \E c \in 0..(Len(pCategories) - 1) :
          /\ pCurrentCategory' = c
          /\ pPages' = pCategories[c + 1].pages
          /\ pAttachments' = pAttachments
          /\ pCurrentPage' = 0
          /\ pSent' = SendPage(pCategories[c + 1].pages[1], pAttachments, 0, pMessage)
          /\ pLast' = [op |-> "category", arg |-> c]
    /\ UNCHANGED << pKind, pInput, pCategories, pMessage, pStarted >>
    /\ UNCHANGED << diffVars, botVars, ansiVars, viewVars >>

\* CategoryPaginatorSelect.callback, advanced_paginator.py lines 57-67
SelectCategory ==
    /\ pStarted /\ pKind = "category"
    /\ \E c \in 0..(Len(pCategories) - 1) :
          /\ pCurrentCategory' = c
          /\ pPages' = pCategories[c + 1].pages
          /\ pAttachments' = pCategories[c + 1].attachments
          /\ pCurrentPage' = 0
          /\ pSent' = SendPage(pCategories[c + 1].pages[1],
                               pCategories[c + 1].attachments, 0, pMessage)
          /\ pLast' = [op |-> "category", arg |-> c]
    /\ UNCHANGED << pKind, pInput, pCategories, pMessage, pStarted >>
    /\ UNCHANGED << diffVars, botVars, ansiVars, viewVars >>

PagerNext ==
    \/ StartPaginator
    \/ GotoFirstPage
    \/ PreviousPage
    \/ NextPage
    \/ GotoLastPage
    \/ StopPaginator
    \/ SelectPage
    \/ SelectCategory

PagerInit == PagerInputs /\ BotIdle /\ DiffIdle /\ AnsiIdle /\ ViewIdle

PagerSpec == PagerInit /\ [][PagerNext]_vars

\* C27: for a paginator with at least one page (in every category) started at
\* a valid page, 0 <= current_page < len(pages) holds after every sequence of
\* button presses, page choices and category choices; next on the last page
\* goes to page 0 and on any other page one page on, previous on page 0 goes
\* to the last page and on any other page one page back.
C27_PageInRange ==
    /\ [](0 <= pCurrentPage /\ pCurrentPage < Len(pPages))
    /\ [][ pLast'.op = "next" =>
             pCurrentPage' = IF pCurrentPage = Len(pPages) - 1 THEN 0
                             ELSE pCurrentPage + 1 ]_vars
    /\ [][ pLast'.op = "previous" =>
             pCurrentPage' = IF pCurrentPage = 0 THEN Len(pPages) - 1
                             ELSE pCurrentPage - 1 ]_vars

\* C27 witness: a category paginator on the last of two pages of its second
\* category, reached by previous from page 0.
C27_Witness ==
    /\ pKind = "category" /\ pCurrentCategory = 1
    /\ Len(pPages) = 2 /\ pCurrentPage = 1
    /\ pLast.op = "previous"

\* C28 (as claimed): in the select paginator the files sent with a page (a
\* str, or an embed whose image refers to an attachment) are the attachment
\* of the entry of that page, and none when that entry has no attachment.
C28_EntryAttachment ==
    (/\ pKind = "select" /\ pSent # None
     /\ (pSent[1].page.kind = "str" \/ pSent[1].page.ref)) =>
        LET entry == pInput[pSent[1].index + 1] IN
        /\ pSent[1].page = entry.value
        /\ pSent[1].files = IF entry.attachment = None THEN << >>
                            ELSE << entry.attachment[1] >>

\* C29: in the category paginator pages and attachments are always those of
\* categories[current_category], and a category choice sets current_page to
\* 0 and sends page 0 of the chosen category with that category's
\* attachments.
C29_CategoryState ==
    /\ [](pKind = "category" =>
             /\ pCurrentCategory \in 0..(Len(pCategories) - 1)
             /\ pPages = pCategories[pCurrentCategory + 1].pages
             /\ pAttachments = pCategories[pCurrentCategory + 1].attachments)
    /\ [][ pLast'.op = "category" =>
             /\ pCurrentCategory' = pLast'.arg
             /\ pCurrentPage' = 0
             /\ pSent' = SendPage(pCategories[pLast'.arg + 1].pages[1],
                                  pCategories[pLast'.arg + 1].attachments, 0, TRUE) ]_vars

\* C29 witness: the second category, with other attachments than the first,
\* was chosen while the first one stood on its page 1.
C29_Witness ==
    /\ pKind = "category" /\ pCurrentCategory = 1 /\ pLast.op = "category"
    /\ Len(pCategories) = 2
    /\ pCategories[1].attachments # pCategories[2].attachments
    /\ pCategories[1].pages # pCategories[2].pages

=============================================================================
